---- MODULE Spec2Model ----
(***************************************************************************)
(* Timeline and caption engine of the viral shorts generator:              *)
(*   hook_analyzer.py   HookAnalyzer.analyze / _refine_timestamps          *)
(*   main.py            get_segments_for_timerange, main                   *)
(*   text_animator.py   TextAnimator._create_word_clips /                  *)
(*                      _create_sentence_clips, pop_effect                 *)
(* Times are whole seconds.  Strings are sequences of one-character        *)
(* strings, so that upper(), split() and join() are computed.              *)
(***************************************************************************)
EXTENDS Integers, Sequences, FiniteSets, TLC

VARIABLES
    pc,             \* control location of the running function
    response,       \* LLM reply handed to analyze: [valid, result]
    hooks,          \* analyze: the hook list (mutated in place)
    hook_i,         \* _refine_timestamps: index of `hook` in `for hook in hooks`
    segments,       \* transcript['segments']
    start_time,     \* get_segments_for_timerange: window start
    end_time,       \* get_segments_for_timerange: window end
    seg_i,          \* index of the segment the running loop is at
    clip_segments,  \* get_segments_for_timerange: result; scheduler: input
    word_by_word,   \* add_animated_captions: granularity flag
    max_duration,   \* scheduler: video_duration
    instructions,   \* calls made to _create_animated_text, with their outcome
    clips,          \* the scheduler's `clips` list (calls that returned a clip)
    clip_addrs,     \* identities (id()) of the objects of clip_segments
    allocs,         \* objects the running get_segments_for_timerange has built
    tasks,          \* locals of the concurrent get_segments_for_timerange calls
    main_pc,        \* control location of main
    found_hooks,    \* main: the list analyze_hooks returned
    hook_number,    \* main: i of `for i, hook in enumerate(found_hooks, 1)`
    events,         \* main: the calls made so far, in call order
    generated_shorts, \* main: the list of finished shorts
    keep_temp,      \* main: the --keep-temp flag
    frame_t,        \* pop_effect: the time t of the frame, in milliseconds
    scale,          \* pop_effect: the value returned, in 1/ScaleUnit
    opacities,      \* glow_opacity: the values returned, frame after frame
    clip_tasks,     \* VideoClipper.clip: the position of the call of each hook
    parallel        \* whether the clip calls of the hooks run side by side

\* the state of analyze, get_segments_for_timerange and the scheduler
callVars == <<pc, response, hooks, hook_i, segments, start_time, end_time,
              seg_i, clip_segments, word_by_word, max_duration, instructions,
              clips>>

heapVars == <<clip_addrs, allocs>>

mainVars == <<main_pc, found_hooks, hook_number, events, generated_shorts,
              keep_temp>>

popVars == <<frame_t, scale, opacities>>

clipVars == <<clip_tasks, parallel>>

vars == <<callVars, heapVars, tasks, mainVars, popVars, clipVars>>

----------------------------------------------------------------------------
(* Bounds of the model *)

MaxHooks == 2
MaxSegs == 2

(* Program constants of _refine_timestamps *)

SnapTolerance == 2
MinDuration == 10
ShortDuration == 15
MaxDuration == 60
DefaultStart == 0
DefaultEnd == 30
DefaultScore == 0

----------------------------------------------------------------------------
(* Components that take no part in a run *)

HeapIdle == clip_addrs = <<>> /\ allocs = 0

TasksIdle == tasks = <<>>

MainIdle ==
    /\ main_pc = "idle"
    /\ found_hooks = <<>>
    /\ hook_number = 0
    /\ events = <<>>
    /\ generated_shorts = <<>>
    /\ keep_temp = FALSE

PopIdle == frame_t = 0 /\ scale = 0 /\ opacities = <<>>

ClipsIdle == clip_tasks = <<>> /\ parallel = FALSE

----------------------------------------------------------------------------
(* Generic helpers *)

Abs(x) == IF x < 0 THEN -x ELSE x

Max(a, b) == IF a >= b THEN a ELSE b

Min(a, b) == IF a <= b THEN a ELSE b

\* n copies of the character c
Str(n, c) == [k \in 1..n |-> c]

\* dict.get(key, default)
Get(d, key, default) == IF key \in DOMAIN d THEN d[key] ELSE default

\* d[key] = value
SetKey(d, key, value) ==
    [k \in DOMAIN d \cup {key} |-> IF k = key THEN value ELSE d[k]]

\* all sequences over S of length 0..n
SeqsUpTo(S, n) == UNION {[1..k -> S] : k \in 0..n}

----------------------------------------------------------------------------
(* hook_analyzer.py *)

\* variant: tolerance test with <= in place of <
FirstStartMatch_Inclusive(segs, t) ==
    LET M == {i \in 1..Len(segs) : Abs(segs[i].start - t) <= SnapTolerance}
    IN  IF M = {} THEN 0 ELSE CHOOSE i \in M : \A j \in M : i <= j

\* index of the first segment whose start is within tolerance, 0 if none
FirstStartMatch(segs, t) ==
    LET M == {i \in 1..Len(segs) : Abs(segs[i].start - t) < SnapTolerance}
    IN  IF M = {} THEN 0 ELSE CHOOSE i \in M : \A j \in M : i <= j

\* variant: the end loop runs over segments, not over reversed(segments)
LastEndMatch_Forward(segs, t) ==
    LET M == {i \in 1..Len(segs) : Abs(segs[i].end - t) < SnapTolerance}
    IN  IF M = {} THEN 0 ELSE CHOOSE i \in M : \A j \in M : i <= j

\* index of the first segment of reversed(segments) whose end is within
\* tolerance, 0 if none
LastEndMatch(segs, t) ==
    LET M == {i \in 1..Len(segs) : Abs(segs[i].end - t) < SnapTolerance}
    IN  IF M = {} THEN 0 ELSE CHOOSE i \in M : \A j \in M : i >= j

\* variant: without a segment in tolerance the hook takes the start of the
\* first segment of the transcript
SnapStart_Fallback(hook, segs) ==
    LET m == FirstStartMatch(segs, Get(hook, "start_time", DefaultStart))
    IN  IF m = 0
        THEN IF segs = <<>> THEN hook
             ELSE SetKey(hook, "start_time", segs[1].start)
        ELSE SetKey(hook, "start_time", segs[m].start)

\* lines 138-141, for the hook at hand
SnapStart(hook, segs) ==
    LET m == FirstStartMatch(segs, Get(hook, "start_time", DefaultStart))
    IN  IF m = 0 THEN hook ELSE SetKey(hook, "start_time", segs[m].start)

\* lines 143-146
SnapEnd(hook, segs) ==
    LET m == LastEndMatch(segs, Get(hook, "end_time", DefaultEnd))
    IN  IF m = 0 THEN hook ELSE SetKey(hook, "end_time", segs[m].end)

\* variant: the short test with <= in place of <
ClampDuration_ShortInclusive(hook) ==
    LET duration == hook.end_time - hook.start_time
    IN  IF duration <= MinDuration
        THEN SetKey(hook, "end_time", hook.start_time + ShortDuration)
        ELSE IF duration > MaxDuration
             THEN SetKey(hook, "end_time", hook.start_time + MaxDuration)
             ELSE hook

\* lines 149-153, for a hook that has both keys
ClampDuration(hook) ==
    LET duration == hook.end_time - hook.start_time
    IN  IF duration < MinDuration
        THEN SetKey(hook, "end_time", hook.start_time + ShortDuration)
        ELSE IF duration > MaxDuration
             THEN SetKey(hook, "end_time", hook.start_time + MaxDuration)
             ELSE hook

\* key of hooks.sort
SortKey(hook) == Get(hook, "virality_score", DefaultScore)

\* insert x into the descending list s behind every element of key >= key(x)
RECURSIVE InsertDesc(_, _)
InsertDesc(s, x) ==
    IF s = <<>> THEN <<x>>
    ELSE IF SortKey(Head(s)) >= SortKey(x)
         THEN <<Head(s)>> \o InsertDesc(Tail(s), x)
         ELSE <<x>> \o s

\* variant: ascending stable sort, then reversed (ties end up reversed)
RECURSIVE InsertAsc(_, _)
InsertAsc(s, x) ==
    IF s = <<>> THEN <<x>>
    ELSE IF SortKey(Head(s)) <= SortKey(x)
         THEN <<Head(s)>> \o InsertAsc(Tail(s), x)
         ELSE <<x>> \o s

RECURSIVE SortAsc(_)
SortAsc(s) ==
    IF s = <<>> THEN <<>>
    ELSE InsertAsc(SortAsc(SubSeq(s, 1, Len(s) - 1)), s[Len(s)])

SortDesc_ReversedAscending(s) ==
    LET a == SortAsc(s) IN [i \in 1..Len(s) |-> a[Len(s) + 1 - i]]

\* list.sort(key=..., reverse=True): stable, descending
RECURSIVE SortDesc(_)
SortDesc(s) ==
    IF s = <<>> THEN <<>>
    ELSE InsertDesc(SortDesc(SubSeq(s, 1, Len(s) - 1)), s[Len(s)])

\* lines 102-103: json.loads, result.get('hooks', [])
Parse ==
    /\ pc = "parse"
    /\ IF ~response.valid
       THEN /\ pc' = "JSONDecodeError"
            /\ UNCHANGED hooks
       ELSE /\ hooks' = Get(response.result, "hooks", <<>>)
            /\ pc' = IF hooks' = <<>> THEN "sort" ELSE "start_snap"
    /\ UNCHANGED <<response, hook_i, segments, start_time, end_time, seg_i,
                   clip_segments, word_by_word, max_duration, instructions,
                   clips>>
    /\ UNCHANGED <<heapVars, tasks, mainVars, popVars, clipVars>>

\* variant: the suggested start is read once, from the first hook of the
\* list, and every hook is matched against it
StartSnap_FirstHook ==
    /\ pc = "start_snap"
    /\ LET m == FirstStartMatch(segments,
                                Get(hooks[1], "start_time", DefaultStart))
       IN  hooks' = IF m = 0 THEN hooks
                    ELSE [hooks EXCEPT
                            ![hook_i] = SetKey(@, "start_time", segments[m].start)]
    /\ pc' = "end_snap"
    /\ UNCHANGED <<response, hook_i, segments, start_time, end_time, seg_i,
                   clip_segments, word_by_word, max_duration, instructions,
                   clips>>
    /\ UNCHANGED <<heapVars, tasks, mainVars, popVars, clipVars>>

\* lines 134, 138-141: the start loop of the current hook
StartSnap ==
    /\ pc = "start_snap"
    /\ hooks' = [hooks EXCEPT ![hook_i] = SnapStart(@, segments)]
    /\ pc' = "end_snap"
    /\ UNCHANGED <<response, hook_i, segments, start_time, end_time, seg_i,
                   clip_segments, word_by_word, max_duration, instructions,
                   clips>>
    /\ UNCHANGED <<heapVars, tasks, mainVars, popVars, clipVars>>

\* lines 135, 143-146: the end loop of the current hook
EndSnap ==
    /\ pc = "end_snap"
    /\ hooks' = [hooks EXCEPT ![hook_i] = SnapEnd(@, segments)]
    /\ pc' = "duration"
    /\ UNCHANGED <<response, hook_i, segments, start_time, end_time, seg_i,
                   clip_segments, word_by_word, max_duration, instructions,
                   clips>>
    /\ UNCHANGED <<heapVars, tasks, mainVars, popVars, clipVars>>

\* lines 148-153, then the next iteration of `for hook in hooks`
EnsureDuration ==
    /\ pc = "duration"
    /\ IF {"start_time", "end_time"} \subseteq DOMAIN hooks[hook_i]
       THEN /\ hooks' = [hooks EXCEPT ![hook_i] = ClampDuration(@)]
            /\ hook_i' = hook_i + 1
            /\ pc' = IF hook_i = Len(hooks) THEN "sort" ELSE "start_snap"
       ELSE /\ pc' = "KeyError"
            /\ UNCHANGED <<hooks, hook_i>>
    /\ UNCHANGED <<response, segments, start_time, end_time, seg_i,
                   clip_segments, word_by_word, max_duration, instructions,
                   clips>>
    /\ UNCHANGED <<heapVars, tasks, mainVars, popVars, clipVars>>

\* lines 108-114: sort by virality score, display, return
SortHooks ==
    /\ pc = "sort"
    /\ hooks' = SortDesc(hooks)
    /\ pc' = "analyzed"
    /\ UNCHANGED <<response, hook_i, segments, start_time, end_time, seg_i,
                   clip_segments, word_by_word, max_duration, instructions,
                   clips>>
    /\ UNCHANGED <<heapVars, tasks, mainVars, popVars, clipVars>>

----------------------------------------------------------------------------
(* Inputs of analyze *)

\* suggested starts: the first second of the video and one tolerance later
HookStarts == {0, SnapTolerance}

\* suggested ends just above the shortest and the longest allowed duration
HookEnds == {MinDuration + 1, MaxDuration + 2}

\* two of the virality scores 1..10
Scores == {1, 2}

\* hook_text names the position of the hook in the payload
HookLists ==
    UNION {{[i \in 1..n |-> [start_time |-> f[i][1], end_time |-> f[i][2],
                             virality_score |-> f[i][3],
                             hook_text |-> Str(i, "h"),
                             hook_type |-> IF i = 1 THEN "opening_hook"
                                           ELSE "curiosity_gap",
                             reason |-> Str(i, "r")]] :
            f \in [1..n -> HookStarts \X HookEnds \X Scores]} : n \in 1..MaxHooks}

Responses ==
    {[valid |-> FALSE, result |-> [raw |-> "{"]],
     [valid |-> TRUE, result |-> [error |-> "none"]],
     [valid |-> TRUE, result |-> [hooks |-> <<>>]]}
    \cup {[valid |-> TRUE, result |-> [hooks |-> hs]] : hs \in HookLists}

\* segment starts on, and one second past, the suggested starts
SegStarts == {0, SnapTolerance, SnapTolerance + 1}

\* segment ends one second either side of the shorter suggested end, and
\* one a full tolerance away from the longer suggested end
SegEnds == {MinDuration, MinDuration + SnapTolerance, MaxDuration}

\* the segments of the transcripts: one at the head of the video, one that
\* starts on the later suggested start, and two that start a second past it
SegSpans ==
    {sp \in SegStarts \X SegEnds :
       \/ sp[1] = 0 /\ sp[2] = MinDuration
       \/ sp[1] = SnapTolerance /\ sp[2] = MinDuration + SnapTolerance
       \/ sp[1] = SnapTolerance + 1 /\ sp[2] # MinDuration + SnapTolerance}

\* text names the position of the segment in the transcript
PlainSegLists ==
    UNION {{[i \in 1..n |-> [start |-> f[i][1], end |-> f[i][2],
                             text |-> Str(i, "s")]] :
            f \in [1..n -> SegSpans]} : n \in 0..MaxSegs}

InitRefine ==
    /\ pc = "parse"
    /\ response \in Responses
    /\ hooks = <<>>
    /\ hook_i = 1
    /\ segments \in PlainSegLists
    /\ start_time = 0
    /\ end_time = 0
    /\ seg_i = 1
    /\ clip_segments = <<>>
    /\ word_by_word = TRUE
    /\ max_duration = 0
    /\ instructions = <<>>
    /\ clips = <<>>
    /\ HeapIdle /\ TasksIdle /\ MainIdle /\ PopIdle /\ ClipsIdle

NextRefine == Parse \/ StartSnap \/ EndSnap \/ EnsureDuration \/ SortHooks

SpecRefine == InitRefine /\ [][NextRefine]_vars

\* the keys that hook.get reads with a default (lines 134-135)
OptionalKeys == {"start_time", "end_time"}

\* the hook h without the keys K
WithoutKeys(h, K) == [k \in DOMAIN h \ K |-> h[k]]

\* payloads whose hooks may omit start_time, end_time or both
PartialHookLists ==
    {[i \in 1..Len(hs) |-> WithoutKeys(hs[i], d[i])] :
       hs \in {l \in HookLists : \A i \in 1..Len(l) : l[i].virality_score = 1},
       d \in [1..MaxHooks -> SUBSET OptionalKeys]}

\* segments at the head of the video: one that ends far from the default
\* end, one that ends on it, and one that starts and ends far from both
\* defaults
DefaultSpans ==
    {<<DefaultStart, MinDuration>>, <<DefaultStart, DefaultEnd>>,
     <<SnapTolerance + 1, MaxDuration>>}

DefaultSegLists ==
    UNION {{[i \in 1..n |-> [start |-> f[i][1], end |-> f[i][2],
                             text |-> Str(i, "s")]] :
            f \in [1..n -> DefaultSpans]} : n \in 0..MaxSegs}

\* analyze on a reply whose hooks may lack a timestamp
InitMissingKeys ==
    /\ pc = "parse"
    /\ \E hs \in PartialHookLists :
         response = [valid |-> TRUE, result |-> [hooks |-> hs]]
    /\ hooks = <<>>
    /\ hook_i = 1
    /\ segments \in DefaultSegLists
    /\ start_time = 0
    /\ end_time = 0
    /\ seg_i = 1
    /\ clip_segments = <<>>
    /\ word_by_word = TRUE
    /\ max_duration = 0
    /\ instructions = <<>>
    /\ clips = <<>>
    /\ HeapIdle /\ TasksIdle /\ MainIdle /\ PopIdle /\ ClipsIdle

SpecMissingKeys == InitMissingKeys /\ [][NextRefine]_vars

----------------------------------------------------------------------------
(* main.py: get_segments_for_timerange *)

\* variant: strict overlap test, boundary contact does not count
Overlaps_Strict(x, t0, t1) == x.end > t0 /\ x.start < t1

\* lines 152 and 164: the overlap test of a segment or a word
Overlaps(x, t0, t1) == x.end >= t0 /\ x.start <= t1

\* variant: the end is shifted but not clamped to the window length
AdjustedEnd_Unclamped(x, t0, t1) == x.end - t0

\* variant: the start is shifted but not clamped at zero
AdjustedStart_Unclamped(x, t0) == x.start - t0

\* lines 155 and 166
AdjustedStart(x, t0) == Max(0, x.start - t0)

\* lines 156 and 167
AdjustedEnd(x, t0, t1) == Min(t1 - t0, x.end - t0)

\* variant: every word of an included segment is kept
KeepWord_Always(word, t0, t1) == TRUE

\* line 164
KeepWord(word, t0, t1) == Overlaps(word, t0, t1)

\* lines 162-169: the words of seg that pass the test, rebased, in order
RECURSIVE AdjustedWords(_, _, _)
AdjustedWords(words, t0, t1) ==
    IF words = <<>> THEN <<>>
    ELSE LET word == Head(words)
             rest == AdjustedWords(Tail(words), t0, t1)
         IN  IF KeepWord(word, t0, t1)
             THEN <<[start |-> AdjustedStart(word, t0),
                     end |-> AdjustedEnd(word, t0, t1),
                     word |-> word.word]>> \o rest
             ELSE rest

\* lines 154-170: adjusted_seg
AdjustedSeg(seg, t0, t1) ==
    LET base == [start |-> AdjustedStart(seg, t0),
                 end |-> AdjustedEnd(seg, t0, t1),
                 text |-> seg.text]
    IN  IF "words" \in DOMAIN seg
        THEN SetKey(base, "words", AdjustedWords(seg.words, t0, t1))
        ELSE base

\* the dicts and lists a segment is made of: the segment dict, its word list
\* and one dict for each word
ObjectCount(seg) ==
    1 + (IF "words" \in DOMAIN seg THEN 1 + Len(seg.words) ELSE 0)

\* the objects of the argument `segments`: the list and those of each segment
RECURSIVE InputObjects(_)
InputObjects(segs) ==
    IF segs = <<>> THEN 1
    ELSE InputObjects(SubSeq(segs, 1, Len(segs) - 1)) + ObjectCount(segs[Len(segs)])

\* identities of the objects of a segment laid out behind the address base
SegAddrs(seg, base) ==
    [dict |-> base + 1,
     words |-> IF "words" \in DOMAIN seg THEN base + 2 ELSE 0,
     word_dicts |-> IF "words" \in DOMAIN seg
                    THEN [j \in 1..Len(seg.words) |-> base + 2 + j]
                    ELSE <<>>]

\* variant: a segment that needs no adjustment is appended as it is
ResultAddrs_Reuse(seg, adjusted, in_base, top) ==
    IF adjusted = seg THEN SegAddrs(seg, in_base) ELSE SegAddrs(adjusted, top)

\* lines 154-170: the dict display of adjusted_seg, the list display
\* adjusted_words and the dict display of each appended word build new
\* objects, above every object that exists (top)
ResultAddrs(seg, adjusted, in_base, top) == SegAddrs(adjusted, top)

\* lines 150-172: one iteration of `for seg in segments`
ExtractSegment ==
    /\ pc = "extract"
    /\ seg_i <= Len(segments)
    /\ clip_segments' =
         IF Overlaps(segments[seg_i], start_time, end_time)
         THEN Append(clip_segments,
                     AdjustedSeg(segments[seg_i], start_time, end_time))
         ELSE clip_segments
    /\ clip_addrs' =
         IF Overlaps(segments[seg_i], start_time, end_time)
         THEN Append(clip_addrs,
                     ResultAddrs(segments[seg_i],
                                 AdjustedSeg(segments[seg_i], start_time, end_time),
                                 InputObjects(SubSeq(segments, 1, seg_i - 1)),
                                 InputObjects(segments) + allocs))
         ELSE clip_addrs
    /\ allocs' =
         IF Overlaps(segments[seg_i], start_time, end_time)
         THEN allocs + ObjectCount(AdjustedSeg(segments[seg_i], start_time, end_time))
         ELSE allocs
    /\ seg_i' = seg_i + 1
    /\ UNCHANGED <<pc, response, hooks, hook_i, segments, start_time,
                   end_time, word_by_word, max_duration, instructions, clips>>
    /\ UNCHANGED <<tasks, mainVars, popVars, clipVars>>

\* line 174: return clip_segments
ExtractReturn ==
    /\ pc = "extract"
    /\ seg_i > Len(segments)
    /\ pc' = "extracted"
    /\ UNCHANGED <<response, hooks, hook_i, segments, start_time, end_time,
                   seg_i, clip_segments, word_by_word, max_duration,
                   instructions, clips>>
    /\ UNCHANGED <<heapVars, tasks, mainVars, popVars, clipVars>>

----------------------------------------------------------------------------
(* Inputs of get_segments_for_timerange *)

\* words in the whole transcript
MaxWords == 2

Times == {0, 1, 2}

Intervals == {iv \in Times \X Times : iv[1] <= iv[2]}

\* words at the head or the tail of the timeline, at most a second long
WordIntervals ==
    {iv \in Intervals : iv[2] - iv[1] <= 1 /\ (iv[1] = 0 \/ iv[2] = 2)}

\* segments of the transcripts: before, after, and on either edge of a window
SegIntervals == WordIntervals

\* windows with end_time > start_time that leave a second outside
Windows == {<<0, 1>>, <<1, 2>>}

RECURSIVE SumTo(_, _)
SumTo(c, n) == IF n = 0 THEN 0 ELSE SumTo(c, n - 1) + Max(c[n], 0)

\* for each of n segments the number of its words, -1 for no 'words' key
WordCounts(n) ==
    {c \in [1..n -> -1..MaxWords] : SumTo(c, n) <= MaxWords}

\* the transcript of n segments with intervals iv, word counts c and the
\* word intervals flat; text and word name the position in the input
Transcript(n, iv, c, flat) ==
    [i \in 1..n |->
       LET base == [start |-> iv[i][1], end |-> iv[i][2], text |-> Str(i, "s")]
       IN  IF c[i] < 0 THEN base
           ELSE SetKey(base, "words",
                  [j \in 1..c[i] |->
                     [start |-> flat[SumTo(c, i - 1) + j][1],
                      end |-> flat[SumTo(c, i - 1) + j][2],
                      word |-> Str(j, "w")]])]

InitExtract ==
    /\ pc = "extract"
    /\ response = [valid |-> TRUE, result |-> [hooks |-> <<>>]]
    /\ hooks = <<>>
    /\ hook_i = 1
    /\ \E n \in 0..MaxSegs : \E c \in WordCounts(n) :
         \E iv \in [1..n -> SegIntervals] :
           \E flat \in [1..SumTo(c, n) -> WordIntervals] :
             segments = Transcript(n, iv, c, flat)
    /\ \E w \in Windows : start_time = w[1] /\ end_time = w[2]
    /\ seg_i = 1
    /\ clip_segments = <<>>
    /\ word_by_word = TRUE
    /\ max_duration = 0
    /\ instructions = <<>>
    /\ clips = <<>>
    /\ clip_addrs = <<>> /\ allocs = 1
    /\ TasksIdle /\ MainIdle /\ PopIdle /\ ClipsIdle

NextExtract == ExtractSegment \/ ExtractReturn

SpecExtract == InitExtract /\ [][NextExtract]_vars

\* every pair of times as a window, those with end_time <= start_time too
AnyWindows == Times \X Times

\* a call of get_segments_for_timerange with any two numbers as its window
InitAnyWindow ==
    /\ pc = "extract"
    /\ response = [valid |-> TRUE, result |-> [hooks |-> <<>>]]
    /\ hooks = <<>>
    /\ hook_i = 1
    /\ \E n \in 0..MaxSegs : \E iv \in [1..n -> SegIntervals] :
         segments = Transcript(n, iv, [i \in 1..n |-> -1], <<>>)
    /\ \E w \in AnyWindows : start_time = w[1] /\ end_time = w[2]
    /\ seg_i = 1
    /\ clip_segments = <<>>
    /\ word_by_word = TRUE
    /\ max_duration = 0
    /\ instructions = <<>>
    /\ clips = <<>>
    /\ clip_addrs = <<>> /\ allocs = 1
    /\ TasksIdle /\ MainIdle /\ PopIdle /\ ClipsIdle

SpecAnyWindow == InitAnyWindow /\ [][NextExtract]_vars

----------------------------------------------------------------------------
(* main.py: calls of get_segments_for_timerange, one per hook, that share *)
(* the transcript and may interleave                                      *)

\* hooks whose windows are extracted at the same time
MaxTasks == 2

\* lines 148-174 run from entry to return: the value of a call on its own
RECURSIVE GetSegmentsForTimerange(_, _, _)
GetSegmentsForTimerange(segs, t0, t1) ==
    IF segs = <<>> THEN <<>>
    ELSE LET front == GetSegmentsForTimerange(SubSeq(segs, 1, Len(segs) - 1),
                                              t0, t1)
             seg == segs[Len(segs)]
         IN  IF Overlaps(seg, t0, t1)
             THEN Append(front, AdjustedSeg(seg, t0, t1))
             ELSE front

\* variant: the result list is one object that all the calls append to
TaskAppend_SharedList(tk, t, seg) ==
    [u \in DOMAIN tk |-> [tk[u] EXCEPT !.clip_segments = Append(@, seg)]]

\* line 172: clip_segments.append(adjusted_seg) on the list that line 150
\* built for this call
TaskAppend(tk, t, seg) == [tk EXCEPT ![t].clip_segments = Append(@, seg)]

\* lines 150-172 of a call t: one iteration of `for seg in segments`
TaskSegment ==
    \E t \in DOMAIN tasks :
      /\ tasks[t].pc = "extract"
      /\ tasks[t].seg_i <= Len(segments)
      /\ LET seg == segments[tasks[t].seg_i]
             t0 == tasks[t].start_time
             t1 == tasks[t].end_time
             stepped == [tasks EXCEPT ![t].seg_i = @ + 1]
         IN  tasks' = IF Overlaps(seg, t0, t1)
                      THEN TaskAppend(stepped, t, AdjustedSeg(seg, t0, t1))
                      ELSE stepped
      /\ UNCHANGED <<callVars, heapVars, mainVars, popVars, clipVars>>

\* line 174 of a call t
TaskReturn ==
    \E t \in DOMAIN tasks :
      /\ tasks[t].pc = "extract"
      /\ tasks[t].seg_i > Len(segments)
      /\ tasks' = [tasks EXCEPT ![t].pc = "extracted"]
      /\ UNCHANGED <<callVars, heapVars, mainVars, popVars, clipVars>>

\* transcripts whose segments each carry one word that spans the segment
SpannedSegLists ==
    UNION {{[i \in 1..n |-> [start |-> iv[i][1], end |-> iv[i][2],
                             text |-> Str(i, "s"),
                             words |-> <<[start |-> iv[i][1], end |-> iv[i][2],
                                          word |-> Str(1, "w")]>>]] :
            iv \in [1..n -> SegIntervals]} : n \in 0..MaxSegs}

\* every call has run line 150 and stands in front of the loop
InitTasks ==
    /\ pc = "tasks"
    /\ response = [valid |-> TRUE, result |-> [hooks |-> <<>>]]
    /\ hooks = <<>>
    /\ hook_i = 1
    /\ segments \in SpannedSegLists
    /\ start_time = 0
    /\ end_time = 0
    /\ seg_i = 1
    /\ clip_segments = <<>>
    /\ word_by_word = TRUE
    /\ max_duration = 0
    /\ instructions = <<>>
    /\ clips = <<>>
    /\ \E n \in 1..MaxTasks : \E w \in [1..n -> Windows] :
         tasks = [t \in 1..n |-> [pc |-> "extract", start_time |-> w[t][1],
                                  end_time |-> w[t][2], seg_i |-> 1,
                                  clip_segments |-> <<>>]]
    /\ HeapIdle /\ MainIdle /\ PopIdle /\ ClipsIdle

NextTasks == TaskSegment \/ TaskReturn

SpecTasks == InitTasks /\ [][NextTasks]_vars

----------------------------------------------------------------------------
(* main.py: main, from the try block of line 74 on.  The collaborators    *)
(* (downloader, audio extractor, transcriber, LLM, video writer) either   *)
(* return or raise.                                                       *)

\* what main leaves alone
mainRest == <<pc, response, hooks, hook_i, start_time, end_time, seg_i,
              word_by_word, max_duration, instructions, clips, heapVars,
              tasks, popVars, clipVars>>

\* a call made by main: its name, the number of the hook it is made for
\* (0 outside the loop) and the time window handed to it
Call(op, n, window) == [op |-> op, hook |-> n, window |-> window]

\* the except clause of lines 136-139 prints the error and raises it again
Except == "raised"

\* the times of the runs of main: the start of the video, the shortest
\* duration of a refined hook, and a hook of ShortDuration later
MainTimes == {0, MinDuration, MinDuration + ShortDuration}

\* refined windows: 10 <= end - start <= 60
MainWindows == {<<0, MinDuration>>, <<MinDuration, MinDuration + ShortDuration>>}

\* segments on either side of the first window's end, and points at the
\* first and the last time
MainIntervals == MainWindows \cup {<<0, 0>>, <<MinDuration + ShortDuration,
                                              MinDuration + ShortDuration>>}

\* transcripts transcribe_audio may return
MainTranscripts ==
    UNION {{[i \in 1..n |-> [start |-> iv[i][1], end |-> iv[i][2],
                             text |-> Str(i, "s")]] :
            iv \in [1..n -> MainIntervals]} : n \in 0..MaxSegs}

\* lists analyze may return: refined windows, scores in descending order
RankedHookLists ==
    UNION {{[i \in 1..n |-> [start_time |-> w[i][1], end_time |-> w[i][2],
                             virality_score |-> MaxHooks + 1 - i,
                             hook_text |-> Str(i, "h")]] :
            w \in [1..n -> MainWindows]} : n \in 0..MaxHooks}

\* lines 76-78: download_video
DownloadVideo ==
    /\ main_pc = "download_video"
    /\ events' = Append(events, Call("download_video", 0, <<>>))
    /\ \E ok \in BOOLEAN : main_pc' = IF ok THEN "extract_audio" ELSE Except
    /\ UNCHANGED <<segments, clip_segments, found_hooks, hook_number,
                   generated_shorts, keep_temp, mainRest>>

\* lines 80-81: extract_audio
ExtractAudio ==
    /\ main_pc = "extract_audio"
    /\ events' = Append(events, Call("extract_audio", 0, <<>>))
    /\ \E ok \in BOOLEAN : main_pc' = IF ok THEN "transcribe_audio" ELSE Except
    /\ UNCHANGED <<segments, clip_segments, found_hooks, hook_number,
                   generated_shorts, keep_temp, mainRest>>

\* lines 84-85: transcribe_audio returns the transcript or raises
TranscribeAudio ==
    /\ main_pc = "transcribe_audio"
    /\ events' = Append(events, Call("transcribe_audio", 0, <<>>))
    /\ \/ /\ segments' \in MainTranscripts
          /\ main_pc' = "analyze_hooks"
       \/ /\ main_pc' = Except
          /\ UNCHANGED segments
    /\ UNCHANGED <<clip_segments, found_hooks, hook_number, generated_shorts,
                   keep_temp, mainRest>>

\* lines 88-89: analyze_hooks, which refines and ranks inside analyze
\* (hook_analyzer.py 106-109), returns the ranked list or raises
AnalyzeHooks ==
    /\ main_pc = "analyze_hooks"
    /\ events' = Append(events, Call("analyze_hooks", 0, <<>>))
    /\ \/ /\ found_hooks' \in RankedHookLists
          /\ main_pc' = "check_hooks"
       \/ /\ main_pc' = Except
          /\ UNCHANGED found_hooks
    /\ UNCHANGED <<segments, clip_segments, hook_number, generated_shorts,
                   keep_temp, mainRest>>

\* variant: the test of line 91 is missing
NoHooks_Ignored(hs) == FALSE

\* line 91: `not found_hooks`
NoHooks(hs) == hs = <<>>

\* lines 91-104: sys.exit(1) raises SystemExit, which `except Exception`
\* does not catch; otherwise the loop is entered with i = 1 (a for loop
\* over an empty list would fall through to line 129)
CheckHooks ==
    /\ main_pc = "check_hooks"
    /\ IF NoHooks(found_hooks)
       THEN /\ main_pc' = "sys_exit_1"
            /\ UNCHANGED <<hook_number, generated_shorts>>
       ELSE /\ main_pc' = IF found_hooks = <<>> THEN "cleanup" ELSE "clip_hook"
            /\ hook_number' = 1
            /\ generated_shorts' = <<>>
    /\ UNCHANGED <<segments, clip_segments, found_hooks, events, keep_temp,
                   mainRest>>

\* the window of a hook as lines 116-120 and clip_hook read it
HookWindow(hook) == <<hook.start_time, hook.end_time>>

\* line 108: clipper.clip_hook(video_path, hook, i) writes hook_<i>.mp4
ClipHook ==
    /\ main_pc = "clip_hook"
    /\ events' = Append(events, Call("clip_hook", hook_number,
                                     HookWindow(found_hooks[hook_number])))
    /\ \E ok \in BOOLEAN :
         main_pc' = IF ok THEN "get_segments_for_timerange" ELSE Except
    /\ UNCHANGED <<segments, clip_segments, found_hooks, hook_number,
                   generated_shorts, keep_temp, mainRest>>

\* lines 110-115: get_segments_for_timerange on the window of the hook
GetSegments ==
    /\ main_pc = "get_segments_for_timerange"
    /\ events' = Append(events, Call("get_segments_for_timerange", hook_number,
                                     HookWindow(found_hooks[hook_number])))
    /\ clip_segments' =
         GetSegmentsForTimerange(segments,
                                 found_hooks[hook_number].start_time,
                                 found_hooks[hook_number].end_time)
    /\ main_pc' = "add_animated_captions"
    /\ UNCHANGED <<segments, found_hooks, hook_number, generated_shorts,
                   keep_temp, mainRest>>

\* variant: the loop stops one hook short
AfterHook_OneShort(n, hs) == IF n >= Len(hs) - 1 THEN "cleanup" ELSE "clip_hook"

\* line 104: the for loop goes on to the next hook, or ends after the last
AfterHook(n, hs) == IF n = Len(hs) THEN "cleanup" ELSE "clip_hook"

\* the short written for hook n: viral_hook_<n>.mp4, made of the clip
\* hook_<n>.mp4 of the hook's window and of the captions scheduled
Short(n, hook, captions) ==
    [name |-> n, clip |-> [name |-> n, window |-> HookWindow(hook)],
     captions |-> captions]

\* lines 118-127: add_animated_captions, generated_shorts.append(final_path)
AddCaptions ==
    /\ main_pc = "add_animated_captions"
    /\ events' = Append(events, Call("add_animated_captions", hook_number,
                                     <<>>))
    /\ \/ /\ generated_shorts' =
               Append(generated_shorts,
                      Short(hook_number, found_hooks[hook_number],
                            clip_segments))
          /\ hook_number' = hook_number + 1
          /\ main_pc' = AfterHook(hook_number, found_hooks)
       \/ /\ main_pc' = Except
          /\ UNCHANGED <<generated_shorts, hook_number>>
    /\ UNCHANGED <<segments, clip_segments, found_hooks, keep_temp, mainRest>>

\* lines 129-131: cleanup_temp_files unless keep_temp
Cleanup ==
    /\ main_pc = "cleanup"
    /\ events' = IF keep_temp THEN events
                 ELSE Append(events, Call("cleanup_temp_files", 0, <<>>))
    /\ main_pc' = "print_summary"
    /\ UNCHANGED <<segments, clip_segments, found_hooks, hook_number,
                   generated_shorts, keep_temp, mainRest>>

\* line 134: print_summary, then main returns
PrintSummary ==
    /\ main_pc = "print_summary"
    /\ events' = Append(events, Call("print_summary", 0, <<>>))
    /\ main_pc' = "done"
    /\ UNCHANGED <<segments, clip_segments, found_hooks, hook_number,
                   generated_shorts, keep_temp, mainRest>>

\* the locations at which main has ended
Terminal == {"done", "sys_exit_1", "raised"}

\* main after validate_config and the creation of the output directory
InitMain ==
    /\ pc = "main"
    /\ response = [valid |-> TRUE, result |-> [hooks |-> <<>>]]
    /\ hooks = <<>>
    /\ hook_i = 1
    /\ segments = <<>>
    /\ start_time = 0
    /\ end_time = 0
    /\ seg_i = 1
    /\ clip_segments = <<>>
    /\ word_by_word = TRUE
    /\ max_duration = 0
    /\ instructions = <<>>
    /\ clips = <<>>
    /\ main_pc = "download_video"
    /\ found_hooks = <<>>
    /\ hook_number = 0
    /\ events = <<>>
    /\ generated_shorts = <<>>
    /\ keep_temp \in BOOLEAN
    /\ HeapIdle /\ TasksIdle /\ PopIdle /\ ClipsIdle

NextMain ==
    \/ DownloadVideo \/ ExtractAudio \/ TranscribeAudio \/ AnalyzeHooks
    \/ CheckHooks \/ ClipHook \/ GetSegments \/ AddCaptions \/ Cleanup
    \/ PrintSummary

SpecMain == InitMain /\ [][NextMain]_vars

----------------------------------------------------------------------------
(* video_clipper.py: VideoClipper.clip, called once per hook by clip_hook. *)
(* In the loop of main.py 104-108 a call starts when the one before it has *)
(* returned; with `parallel` the calls of the hooks start in any order.    *)

\* variant: the scratch file is named after the hook
TempAudioFile_PerHook(n) == [stem |-> "temp_audio", number |-> n]

\* line 63: self.output_dir / "temp_audio.m4a", whatever the hook number n
TempAudioFile(n) == [stem |-> "temp_audio", number |-> 0]

\* lines 124-129 and 54-56: the output hook_<n>.mp4
ClipOutput(n) == [stem |-> "hook", number |-> n]

\* the calls of clip that are inside write_videofile
Writing == {n \in DOMAIN clip_tasks : clip_tasks[n].pc = "writing"}

\* lines 44-56: the video is loaded and the subclip taken
ClipLoad ==
    \E n \in DOMAIN clip_tasks :
      /\ clip_tasks[n].pc = "waiting"
      /\ parallel \/ \A m \in 1..(n - 1) : clip_tasks[m].pc = "done"
      /\ clip_tasks' =
           [clip_tasks EXCEPT
              ![n].pc = "loaded",
              ![n].subclip = <<clip_tasks[n].start_time,
                               Min(clip_tasks[n].end_time,
                                   clip_tasks[n].duration)>>]
      /\ UNCHANGED <<parallel, callVars, heapVars, tasks, mainVars, popVars>>

\* lines 59-65: write_videofile starts and writes the audio to the
\* scratch file
ClipWrite ==
    \E n \in DOMAIN clip_tasks :
      /\ clip_tasks[n].pc = "loaded"
      /\ clip_tasks' = [clip_tasks EXCEPT ![n].pc = "writing",
                                          ![n].temp_audiofile = TempAudioFile(n),
                                          ![n].output = ClipOutput(n)]
      /\ UNCHANGED <<parallel, callVars, heapVars, tasks, mainVars, popVars>>

\* lines 59-65: write_videofile ends (remove_temp deletes the scratch file)
ClipWritten ==
    \E n \in DOMAIN clip_tasks :
      /\ clip_tasks[n].pc = "writing"
      /\ clip_tasks' = [clip_tasks EXCEPT ![n].pc = "written"]
      /\ UNCHANGED <<parallel, callVars, heapVars, tasks, mainVars, popVars>>

\* lines 68-72: the clips are closed and the path returned
ClipClose ==
    \E n \in DOMAIN clip_tasks :
      /\ clip_tasks[n].pc = "written"
      /\ clip_tasks' = [clip_tasks EXCEPT ![n].pc = "done"]
      /\ UNCHANGED <<parallel, callVars, heapVars, tasks, mainVars, popVars>>

\* one call of clip per hook of a ranked list, on a video of some duration
InitClips ==
    /\ pc = "clips"
    /\ response = [valid |-> TRUE, result |-> [hooks |-> <<>>]]
    /\ hooks = <<>>
    /\ hook_i = 1
    /\ segments = <<>>
    /\ start_time = 0
    /\ end_time = 0
    /\ seg_i = 1
    /\ clip_segments = <<>>
    /\ word_by_word = TRUE
    /\ max_duration = 0
    /\ instructions = <<>>
    /\ clips = <<>>
    /\ parallel \in BOOLEAN
    /\ \E hs \in RankedHookLists : \E d \in MainTimes \ {0} :
         clip_tasks = [n \in 1..Len(hs) |->
                         [pc |-> "waiting", start_time |-> hs[n].start_time,
                          end_time |-> hs[n].end_time, duration |-> d,
                          subclip |-> <<>>,
                          temp_audiofile |-> [stem |-> "", number |-> 0],
                          output |-> [stem |-> "", number |-> 0]]]
    /\ HeapIdle /\ TasksIdle /\ MainIdle /\ PopIdle

NextClips == ClipLoad \/ ClipWrite \/ ClipWritten \/ ClipClose

SpecClips == InitClips /\ [][NextClips]_vars

----------------------------------------------------------------------------
(* text_animator.py: _create_word_clips, _create_sentence_clips *)

WrapThreshold == 40
MaxLineLength == 35

\* str.upper on the letters in use
UpperChar(c) ==
    CASE c = "a" -> "A"
      [] c = "b" -> "B"
      [] c = "s" -> "S"
      [] c = "w" -> "W"
      [] OTHER -> c

Upper(text) == [k \in 1..Len(text) |-> UpperChar(text[k])]

IsSpace(c) == c \in {" ", "\n"}

\* str.split(): the maximal runs of non-whitespace characters, in order
Split(text) ==
    LET Starts == {i \in 1..Len(text) :
                     ~IsSpace(text[i]) /\ (i = 1 \/ IsSpace(text[i - 1]))}
        EndOf(i) == CHOOSE j \in i..Len(text) :
                      /\ \A k \in i..j : ~IsSpace(text[k])
                      /\ (j = Len(text) \/ IsSpace(text[j + 1]))
        StartOf(n) == CHOOSE i \in Starts :
                        Cardinality({j \in Starts : j < i}) = n - 1
    IN  [n \in 1..Cardinality(Starts) |->
           SubSeq(text, StartOf(n), EndOf(StartOf(n)))]

\* sep.join(parts)
RECURSIVE Join(_, _)
Join(parts, sep) ==
    IF parts = <<>> THEN <<>>
    ELSE IF Len(parts) = 1 THEN parts[1]
         ELSE parts[1] \o <<sep>> \o Join(Tail(parts), sep)

\* variant: a line is closed one character later
LineIsFull_OffByOne(current_length, word) ==
    current_length + Len(word) > MaxLineLength + 1

\* line 184
LineIsFull(current_length, word) == current_length + Len(word) > MaxLineLength

\* lines 183-193: the loop over words and the flush of the last line
RECURSIVE WrapFrom(_, _, _, _)
WrapFrom(words, lines, current_line, current_length) ==
    IF words = <<>>
    THEN IF current_line # <<>>
         THEN Append(lines, Join(current_line, " "))
         ELSE lines
    ELSE LET word == Head(words)
         IN  IF LineIsFull(current_length, word)
             THEN WrapFrom(Tail(words), Append(lines, Join(current_line, " ")),
                           <<word>>, Len(word))
             ELSE WrapFrom(Tail(words), lines, Append(current_line, word),
                           current_length + Len(word) + 1)

\* variant: texts of more than 35 characters are wrapped
NeedsWrap_LineLength(text) == Len(text) > MaxLineLength

\* line 176
NeedsWrap(text) == Len(text) > WrapThreshold

\* lines 169, 176-195: the text handed to _create_animated_text
SentenceText(raw) ==
    LET text == Upper(raw)
    IN  IF NeedsWrap(text)
        THEN Join(WrapFrom(Split(text), <<>>, <<>>, 0), "\n")
        ELSE text

\* variant: the end is not clamped to the video duration
ClampedEnd_Unclamped(end, limit) == end

\* lines 134 and 198
ClampedEnd(end, limit) == Min(end, limit)

\* variant: only negative durations are dropped
IsDegenerate_Negative(duration) == duration < 0

\* lines 137 and 201
IsDegenerate(duration) == duration <= 0

\* lines 125-148: the calls of _create_animated_text for the words of one
\* segment, in word order
RECURSIVE WordCalls(_, _)
WordCalls(words, limit) ==
    IF words = <<>> THEN <<>>
    ELSE LET word_data == Head(words)
             start == word_data.start
             end == ClampedEnd(word_data.end, limit)
             duration == end - start
             rest == WordCalls(Tail(words), limit)
         IN  IF start >= limit \/ IsDegenerate(duration) THEN rest
             ELSE <<[text |-> Upper(word_data.word), start |-> start,
                     duration |-> duration, is_sentence |-> FALSE]>> \o rest

\* lines 167-212: the call of _create_animated_text for one segment, if any
SentenceCalls(segment, limit) ==
    LET start == segment.start
        end == ClampedEnd(segment.end, limit)
        duration == end - start
    IN  IF start >= limit \/ IsDegenerate(duration) THEN <<>>
        ELSE <<[text |-> SentenceText(segment.text), start |-> start,
                duration |-> duration, is_sentence |-> TRUE]>>

\* lines 139, 203: text_clip = self._create_animated_text(...), each call
\* with the truth value of what it returned
Outcomes(calls, ok) ==
    [k \in 1..Len(calls) |-> SetKey(calls[k], "text_clip", ok[k])]

\* variant: the first call that fails ends the loop
Rendered_UntilFailure(calls, ok) ==
    LET F == {k \in 1..Len(calls) : ~ok[k]}
    IN  IF F = {} THEN calls
        ELSE SubSeq(calls, 1, (CHOOSE k \in F : \A j \in F : k <= j) - 1)

\* the calls that returned a clip, given which calls the renderer completed
RECURSIVE Rendered(_, _)
Rendered(calls, ok) ==
    IF calls = <<>> THEN <<>>
    ELSE (IF ok[1] THEN <<calls[1]>> ELSE <<>>)
         \o Rendered(Tail(calls), [k \in 1..(Len(calls) - 1) |-> ok[k + 1]])

\* _create_word_clips, lines 120-151: one iteration of `for segment in
\* segments`; _create_animated_text (lines 230-262) returns the clip or,
\* when TextClip raises, None
WordClips ==
    /\ pc = "schedule"
    /\ word_by_word
    /\ seg_i <= Len(clip_segments)
    /\ LET segment == clip_segments[seg_i]
           calls == IF "words" \notin DOMAIN segment THEN <<>>
                    ELSE WordCalls(segment.words, max_duration)
       IN  \E ok \in [1..Len(calls) -> BOOLEAN] :
             /\ instructions' = instructions \o Outcomes(calls, ok)
             /\ clips' = clips \o Rendered(calls, ok)
    /\ seg_i' = seg_i + 1
    /\ UNCHANGED <<pc, response, hooks, hook_i, segments, start_time,
                   end_time, clip_segments, word_by_word, max_duration>>
    /\ UNCHANGED <<heapVars, tasks, mainVars, popVars, clipVars>>

\* _create_sentence_clips, lines 166-215: one iteration of `for segment in
\* segments`
SentenceClip ==
    /\ pc = "schedule"
    /\ ~word_by_word
    /\ seg_i <= Len(clip_segments)
    /\ LET calls == SentenceCalls(clip_segments[seg_i], max_duration)
       IN  \E ok \in [1..Len(calls) -> BOOLEAN] :
             /\ instructions' = instructions \o Outcomes(calls, ok)
             /\ clips' = clips \o Rendered(calls, ok)
    /\ seg_i' = seg_i + 1
    /\ UNCHANGED <<pc, response, hooks, hook_i, segments, start_time,
                   end_time, clip_segments, word_by_word, max_duration>>
    /\ UNCHANGED <<heapVars, tasks, mainVars, popVars, clipVars>>

\* lines 153 and 217: return clips
ScheduleReturn ==
    /\ pc = "schedule"
    /\ seg_i > Len(clip_segments)
    /\ pc' = "scheduled"
    /\ UNCHANGED <<response, hooks, hook_i, segments, start_time, end_time,
                   seg_i, clip_segments, word_by_word, max_duration,
                   instructions, clips>>
    /\ UNCHANGED <<heapVars, tasks, mainVars, popVars, clipVars>>

----------------------------------------------------------------------------
(* text_animator.py: pop_effect of _apply_animation.  Frame times are whole *)
(* milliseconds and scales whole multiples of 1/ScaleUnit, which makes     *)
(* every value of the curve on the grid exact.                             *)

\* frame times up to which the curve is followed, in milliseconds
MaxFrameMs == 300

ScaleUnit == 1500

\* the literals 0.15, 0.25 and 0.1 of lines 287-290, in milliseconds
RiseEnd == 150
SettleEnd == 250
FallTime == 100

\* variant: the second test reads t < 0.3
PopEffect_LateSettle(ms) ==
    IF ms < RiseEnd
    THEN (5 * ScaleUnit) \div 10 + (((7 * ScaleUnit) \div 10) * ms) \div RiseEnd
    ELSE IF ms < SettleEnd + 50
         THEN (12 * ScaleUnit) \div 10
              - (((2 * ScaleUnit) \div 10) * (ms - RiseEnd)) \div FallTime
         ELSE ScaleUnit

\* lines 286-293: 0.5 + 0.7 * (t / 0.15), 1.2 - 0.2 * ((t - 0.15) / 0.1), 1.0
PopEffect(ms) ==
    IF ms < RiseEnd
    THEN (5 * ScaleUnit) \div 10 + (((7 * ScaleUnit) \div 10) * ms) \div RiseEnd
    ELSE IF ms < SettleEnd
         THEN (12 * ScaleUnit) \div 10
              - (((2 * ScaleUnit) \div 10) * (ms - RiseEnd)) \div FallTime
         ELSE ScaleUnit

\* line 295: the renderer asks for the scale of the next frame
RenderFrame ==
    /\ pc = "pop"
    /\ frame_t < MaxFrameMs
    /\ frame_t' = frame_t + 1
    /\ scale' = PopEffect(frame_t')
    /\ opacities' = opacities
    /\ UNCHANGED <<callVars, heapVars, tasks, mainVars, clipVars>>

\* the frame at t = 0 is scaled
InitPop ==
    /\ pc = "pop"
    /\ response = [valid |-> TRUE, result |-> [hooks |-> <<>>]]
    /\ hooks = <<>>
    /\ hook_i = 1
    /\ segments = <<>>
    /\ start_time = 0
    /\ end_time = 0
    /\ seg_i = 1
    /\ clip_segments = <<>>
    /\ word_by_word = TRUE
    /\ max_duration = 0
    /\ instructions = <<>>
    /\ clips = <<>>
    /\ frame_t = 0
    /\ scale = PopEffect(0)
    /\ opacities = <<>>
    /\ HeapIdle /\ TasksIdle /\ MainIdle /\ ClipsIdle

NextPop == RenderFrame

SpecPop == InitPop /\ [][NextPop]_vars

----------------------------------------------------------------------------
(* text_animator.py: glow_opacity of _apply_animation.  A second is Turn / *)
(* (2*pi) ticks of frame time and a radian Turn / (2*pi) units of angle,   *)
(* so that t * 6 is computed on whole numbers and 2*pi is Turn ticks.      *)

\* frame times up to which the pulse is followed, in ticks
MaxGlowTicks == 150

\* units of angle in a full turn, 5 degrees each
Turn == 72

\* sin is given in 1/SinUnit, opacity in 1/OpacityUnit
SinUnit == 1000
OpacityUnit == 5000

\* math.sin at 0, 5, ..., 90 degrees, rounded to 1/SinUnit
SinQuarter == <<0, 87, 174, 259, 342, 423, 500, 574, 643, 707, 766, 819, 866, 906, 940, 966, 985, 996, 1000>>

\* math.sin of an angle of a units, by the symmetries of the sine
Sin(a) ==
    LET r == a % Turn
        h == r % (Turn \div 2)
        q == IF h <= Turn \div 4 THEN h ELSE Turn \div 2 - h
        v == SinQuarter[q + 1]
    IN  IF r < Turn \div 2 THEN v ELSE 0 - v

\* the literal 6 of line 313
GlowRate == 6

\* variant: the pulse is limited to the first turn, as shake is to 0.2 s
GlowOpacity_IntroOnly(k) ==
    IF GlowRate * k < Turn
    THEN (8 * OpacityUnit) \div 10
         + (((2 * OpacityUnit) \div 10) * Sin(GlowRate * k)) \div SinUnit
    ELSE (8 * OpacityUnit) \div 10

\* line 313: 0.8 + 0.2 * math.sin(t * 6), at the frame time of k ticks
GlowOpacity(k) ==
    (8 * OpacityUnit) \div 10
    + (((2 * OpacityUnit) \div 10) * Sin(GlowRate * k)) \div SinUnit

\* line 314: the renderer asks for the opacity of the next frame; frame_t
\* is the time of the frame in ticks
GlowFrame ==
    /\ pc = "glow"
    /\ frame_t < MaxGlowTicks
    /\ frame_t' = frame_t + 1
    /\ opacities' = Append(opacities, GlowOpacity(frame_t'))
    /\ UNCHANGED <<scale, callVars, heapVars, tasks, mainVars, clipVars>>

\* the frame at t = 0 has its opacity
InitGlow ==
    /\ pc = "glow"
    /\ response = [valid |-> TRUE, result |-> [hooks |-> <<>>]]
    /\ hooks = <<>>
    /\ hook_i = 1
    /\ segments = <<>>
    /\ start_time = 0
    /\ end_time = 0
    /\ seg_i = 1
    /\ clip_segments = <<>>
    /\ word_by_word = TRUE
    /\ max_duration = 0
    /\ instructions = <<>>
    /\ clips = <<>>
    /\ frame_t = 0
    /\ scale = 0
    /\ opacities = <<GlowOpacity(0)>>
    /\ HeapIdle /\ TasksIdle /\ MainIdle /\ ClipsIdle

NextGlow == GlowFrame

SpecGlow == InitGlow /\ [][NextGlow]_vars

----------------------------------------------------------------------------
(* Inputs of the scheduler *)

\* words in a sentence to wrap
MaxTextWords == 3

\* the letters of the k-th word of a sentence
WordChar(k) == IF k % 2 = 1 THEN "a" ELSE "B"

\* the sentence whose k-th word has lens[k] letters, single spaces between
TextOf(lens) == Join([k \in 1..Len(lens) |-> Str(lens[k], WordChar(k))], " ")

\* a short text, one of exactly 40 characters and one of 41
SchedTexts == {TextOf(<<1>>), TextOf(<<17, 22>>), TextOf(<<18, 22>>)}

\* word lengths around the line length
WordLens == {1, 14, 17, 18, 35, 36}

\* segments in word mode span the clip; only their words are read
InitWordMode ==
    /\ word_by_word = TRUE
    /\ \E n \in 0..MaxSegs : \E c \in WordCounts(n) :
         \E flat \in [1..SumTo(c, n) -> Intervals] :
           clip_segments = Transcript(n, [i \in 1..n |-> <<0, 2>>], c, flat)
    /\ max_duration \in Times

InitSentenceMode ==
    /\ word_by_word = FALSE
    /\ \E n \in 0..MaxSegs : \E f \in [1..n -> Intervals \X SchedTexts] :
         clip_segments = [i \in 1..n |-> [start |-> f[i][1][1],
                                          end |-> f[i][1][2],
                                          text |-> f[i][2]]]
    /\ max_duration \in Times

\* one segment over the whole clip with a sentence of up to MaxTextWords
InitWrap ==
    /\ word_by_word = FALSE
    /\ \E n \in 1..MaxTextWords : \E lens \in [1..n -> WordLens] :
         clip_segments = <<[start |-> 0, end |-> 1, text |-> TextOf(lens)]>>
    /\ max_duration = 1

InitSched ==
    /\ pc = "schedule"
    /\ response = [valid |-> TRUE, result |-> [hooks |-> <<>>]]
    /\ hooks = <<>>
    /\ hook_i = 1
    /\ segments = <<>>
    /\ start_time = 0
    /\ end_time = 0
    /\ seg_i = 1
    /\ InitWordMode \/ InitSentenceMode \/ InitWrap
    /\ instructions = <<>>
    /\ clips = <<>>
    /\ HeapIdle /\ TasksIdle /\ MainIdle /\ PopIdle /\ ClipsIdle

NextSched == WordClips \/ SentenceClip \/ ScheduleReturn

SpecSched == InitSched /\ [][NextSched]_vars

----------------------------------------------------------------------------
(* Claims about hook refinement and ranking *)

\* the hook of the payload that the hook h of the list stems from
Suggested(h) == response.result.hooks[Len(h.hook_text)]

\* C1: the duration step of _refine_timestamps, reading the duration d left
\* by the two snaps, sets the duration to exactly 15 when d < 10, to exactly
\* 60 when d > 60 and leaves the end alone otherwise; the start is not
\* touched, and the hook then satisfies start + 10 <= end <= start + 60.
C1_DurationPolicy ==
    [][(pc = "duration" /\ pc' # "KeyError") =>
         LET before == hooks[hook_i]
             after == hooks'[hook_i]
             d == before.end_time - before.start_time
         IN  /\ after.start_time = before.start_time
             /\ d < 10 => after.end_time - after.start_time = 15
             /\ d > 60 => after.end_time - after.start_time = 60
             /\ (d >= 10 /\ d <= 60) => after.end_time = before.end_time
             /\ after.start_time + 10 <= after.end_time
             /\ after.end_time <= after.start_time + 60]_vars

\* C1 witness: both hooks are refined, one was forced to 15 seconds and one
\* to 60 seconds (neither end is a segment end or the suggested end).
C1_Witness ==
    /\ pc = "sort"
    /\ Len(hooks) = 2
    /\ hooks[1].end_time - hooks[1].start_time = 15
    /\ hooks[2].end_time - hooks[2].start_time = 60
    /\ \A i \in 1..2 :
         /\ hooks[i].end_time # Suggested(hooks[i]).end_time
         /\ \A k \in 1..Len(segments) : segments[k].end # hooks[i].end_time

\* C2: the list analyze returns is a permutation of the refined hooks, in
\* descending order of virality score, hooks of equal score keeping the
\* relative order they had before the sort.
C2_StableDescendingSort ==
    [][pc = "sort" =>
         /\ Len(hooks') = Len(hooks)
         /\ \E p \in [1..Len(hooks) -> 1..Len(hooks)] :
              /\ \A i, j \in 1..Len(hooks) : i # j => p[i] # p[j]
              /\ \A i \in 1..Len(hooks) : hooks'[i] = hooks[p[i]]
              /\ \A i, j \in 1..Len(hooks) :
                   i < j => \/ hooks'[i].virality_score > hooks'[j].virality_score
                            \/ /\ hooks'[i].virality_score = hooks'[j].virality_score
                               /\ p[i] < p[j]]_vars

\* C2 witness: analyze has returned two hooks of equal score.
C2_Witness ==
    /\ pc = "analyzed"
    /\ Len(hooks) = 2
    /\ hooks[1].virality_score = hooks[2].virality_score
    /\ hooks[1] # hooks[2]

Unmatched(h) ==
    \A k \in 1..Len(segments) :
      /\ Abs(segments[k].start - Suggested(h).start_time) >= 2
      /\ Abs(segments[k].end - Suggested(h).end_time) >= 2

\* C12: for hooks that carry start_time and end_time, refinement never ends
\* in an exception, whatever the segment sequence (empty, or with no segment
\* within tolerance): it reaches the sort with every hook processed, and a
\* hook without a matching segment holds its suggested timestamps when the
\* duration step reads them and, after that step, its suggested start and
\* the suggested end as the duration policy leaves it.
C12_RefineTotal ==
    /\ pc # "KeyError"
    /\ pc = "sort" => hook_i = Len(hooks) + 1
    /\ \A i \in 1..Len(hooks) :
         Unmatched(hooks[i]) =>
           LET s == Suggested(hooks[i]).start_time
               e == Suggested(hooks[i]).end_time
           IN  /\ (pc = "duration" /\ i = hook_i) =>
                    (hooks[i].start_time = s /\ hooks[i].end_time = e)
               /\ (i < hook_i /\ pc \in {"start_snap", "end_snap", "duration",
                                          "sort", "analyzed"}) =>
                    /\ hooks[i].start_time = s
                    /\ hooks[i].end_time = IF e - s < 10 THEN s + 15
                                           ELSE IF e - s > 60 THEN s + 60
                                           ELSE e

\* C12 witness: analyze has returned two hooks refined against a transcript
\* of two segments none of which is within tolerance of either hook; one
\* hook still has both suggested timestamps.
C12_Witness ==
    /\ pc = "analyzed"
    /\ Len(hooks) = 2
    /\ Len(segments) = 2
    /\ \A i \in 1..2 : Unmatched(hooks[i])
    /\ \E i \in 1..2 : /\ hooks[i].start_time = Suggested(hooks[i]).start_time
                       /\ hooks[i].end_time = Suggested(hooks[i]).end_time

\* C13: a reply that is not valid JSON, or valid JSON without a 'hooks' key,
\* is treated by analyze as zero hooks: no exception leaves analyze and the
\* list it returns is empty.
C13_BadPayloadIsZeroHooks ==
    (~response.valid \/ "hooks" \notin DOMAIN response.result) =>
      /\ pc # "JSONDecodeError"
      /\ pc = "analyzed" => hooks = <<>>

\* C23: when the two snaps have run for a hook, its start_time is, if some
\* segment start lies within 2 seconds of the suggested start, a segment
\* start at the least distance from the suggested start, and its end_time
\* likewise a segment end at the least distance from the suggested end.
C23_ClosestBoundary ==
    (pc = "duration") =>
      LET s == Suggested(hooks[hook_i]).start_time
          e == Suggested(hooks[hook_i]).end_time
      IN  /\ (\E k \in 1..Len(segments) : Abs(segments[k].start - s) < 2) =>
               \A k \in 1..Len(segments) :
                 Abs(hooks[hook_i].start_time - s) <= Abs(segments[k].start - s)
          /\ (\E k \in 1..Len(segments) : Abs(segments[k].end - e) < 2) =>
               \A k \in 1..Len(segments) :
                 Abs(hooks[hook_i].end_time - e) <= Abs(segments[k].end - e)

\* the keys of a hook that refinement may write
Timestamps == {"start_time", "end_time"}

\* C25: every step of _refine_timestamps keeps the number and the order of
\* the hooks, leaves every hook but the current one as it was, changes no
\* key of the current hook other than start_time and end_time (hook_text,
\* virality_score, hook_type and reason stay) and leaves the segment list
\* alone; when the last hook is done, each hook's timestamps stem from its
\* own suggestion and the segments only: the start is the suggested start or
\* a segment start within tolerance of it, the end is the suggested end, a
\* segment end within tolerance of it, or start + 15 or start + 60; and two
\* hooks with the same suggested timestamps get the same refined ones.
C25_OnlyTimestamps ==
    [][(pc \in {"start_snap", "end_snap", "duration"} /\ pc' # "KeyError") =>
         /\ Len(hooks') = Len(hooks)
         /\ segments' = segments
         /\ \A i \in 1..Len(hooks) :
              /\ i # hook_i => hooks'[i] = hooks[i]
              /\ DOMAIN hooks[i] \subseteq DOMAIN hooks'[i]
              /\ DOMAIN hooks'[i] \subseteq DOMAIN hooks[i] \cup Timestamps
              /\ \A key \in DOMAIN hooks[i] \ Timestamps :
                   hooks'[i][key] = hooks[i][key]
         /\ pc' = "sort" =>
              /\ \A i \in 1..Len(hooks') :
                   LET own == response.result.hooks[i]
                       new == hooks'[i]
                   IN  /\ \/ new.start_time = own.start_time
                          \/ \E k \in 1..Len(segments) :
                               /\ Abs(segments[k].start - own.start_time) < 2
                               /\ new.start_time = segments[k].start
                       /\ \/ new.end_time = own.end_time
                          \/ \E k \in 1..Len(segments) :
                               /\ Abs(segments[k].end - own.end_time) < 2
                               /\ new.end_time = segments[k].end
                          \/ new.end_time = new.start_time + 15
                          \/ new.end_time = new.start_time + 60
              /\ \A i, j \in 1..Len(hooks') :
                   (/\ response.result.hooks[i].start_time
                         = response.result.hooks[j].start_time
                    /\ response.result.hooks[i].end_time
                         = response.result.hooks[j].end_time)
                   => /\ hooks'[i].start_time = hooks'[j].start_time
                      /\ hooks'[i].end_time = hooks'[j].end_time]_vars

\* C25 witness: two hooks are refined; the start of the second and the end
\* of the first were moved, the first start and the second end were not, and
\* both hooks still carry the text, score, type and reason of the payload.
C25_Witness ==
    /\ pc = "sort"
    /\ Len(hooks) = 2
    /\ hooks[1].start_time = response.result.hooks[1].start_time
    /\ hooks[1].end_time # response.result.hooks[1].end_time
    /\ hooks[2].start_time # response.result.hooks[2].start_time
    /\ hooks[2].end_time = response.result.hooks[2].end_time
    /\ \A i \in 1..2 :
         \A key \in {"hook_text", "virality_score", "hook_type", "reason"} :
           hooks[i][key] = response.result.hooks[i][key]

\* C27: _refine_timestamps raises nothing on a hook whose payload omits
\* start_time or end_time, whatever the segments: an omitted start counts
\* as 0 and an omitted end as 30, and every hook it returns has both keys,
\* the omitted one being the default or the segment boundary within
\* tolerance of the default, with start + 10 <= end <= start + 60.
C27_DefaultsApplied ==
    /\ pc # "KeyError"
    /\ pc \in {"sort", "analyzed"} =>
         \A i \in 1..Len(hooks) :
           LET own == Suggested(hooks[i])
           IN  /\ OptionalKeys \subseteq DOMAIN hooks[i]
               /\ "start_time" \notin DOMAIN own =>
                    Abs(hooks[i].start_time - 0) < 2
               /\ hooks[i].start_time + 10 <= hooks[i].end_time
               /\ hooks[i].end_time <= hooks[i].start_time + 60

----------------------------------------------------------------------------
(* Claims about get_segments_for_timerange *)

\* the input segment that the k-th returned segment stems from
Origin(k) == Len(clip_segments[k].text)

\* C3: after any number of iterations the result holds exactly the segments
\* seen so far with end >= start_time and start <= end_time, each once and
\* in input order; at the return this is the whole input.
C3_ExactSubsequence ==
    pc \in {"extract", "extracted"} =>
      LET Q == {i \in 1..(seg_i - 1) : /\ segments[i].end >= start_time
                                       /\ segments[i].start <= end_time}
      IN  /\ Len(clip_segments) = Cardinality(Q)
          /\ \A k \in 1..Len(clip_segments) : Origin(k) \in Q
          /\ \A k, l \in 1..Len(clip_segments) : k < l => Origin(k) < Origin(l)
          /\ pc = "extracted" => seg_i = Len(segments) + 1

\* C3 witness: of two segments the one that only touches the window start
\* is returned and the other one is left out.
C3_Witness ==
    /\ pc = "extracted"
    /\ Len(segments) = 2
    /\ Len(clip_segments) = 1
    /\ segments[Origin(1)].end = start_time
    /\ segments[Origin(1)].start < start_time

\* C4: an iteration that includes a segment appends one record whose start
\* is max(0, start - start_time), whose end is
\* min(end_time - start_time, end - start_time) and whose text is the
\* segment's text, and leaves the records appended before as they were.
C4_Rebase ==
    [][(pc = "extract" /\ clip_segments' # clip_segments) =>
         LET seg == segments[seg_i]
             out == clip_segments'[Len(clip_segments')]
             s == seg.start - start_time
             e == seg.end - start_time
             d == end_time - start_time
         IN  /\ Len(clip_segments') = Len(clip_segments) + 1
             /\ SubSeq(clip_segments', 1, Len(clip_segments)) = clip_segments
             /\ out.start = IF s > 0 THEN s ELSE 0
             /\ out.end = IF e < d THEN e ELSE d
             /\ out.text = seg.text]_vars

\* C4 witness: a segment that begins before the window was returned with
\* start 0, and a segment inside the window was shifted by start_time.
C4_Witness ==
    /\ pc = "extracted"
    /\ start_time > 0
    /\ \E k, l \in 1..Len(clip_segments) :
         /\ segments[Origin(k)].start < start_time
         /\ clip_segments[k].start = 0
         /\ segments[Origin(l)].start > start_time
         /\ clip_segments[l].start = segments[Origin(l)].start - start_time

\* the j-th word of input segment i passes the overlap test
WordPasses(i, j) ==
    /\ segments[i].words[j].end >= start_time
    /\ segments[i].words[j].start <= end_time

\* C5 as stated: every word of a segment that carries words is returned
\* if and only if the word itself overlaps the window, whether or not the
\* parent segment passed.
C5_WordsIndependentOfParent ==
    pc = "extracted" =>
      \A i \in 1..Len(segments) :
        "words" \in DOMAIN segments[i] =>
          \A j \in 1..Len(segments[i].words) :
            WordPasses(i, j) <=>
              \E k \in 1..Len(clip_segments) :
                /\ Origin(k) = i
                /\ \E m \in 1..Len(clip_segments[k].words) :
                     clip_segments[k].words[m].word = segments[i].words[j].word

\* C5 amended: a returned segment has a word list exactly when its input
\* segment has one; the list holds exactly the words of that segment that
\* pass their own overlap test, in input order, rebased like segments; it
\* is empty when no word passes.  (Words of a segment that is not returned
\* are not returned either.)
C5_WordsOfIncludedSegments ==
    pc \in {"extract", "extracted"} =>
      \A k \in 1..Len(clip_segments) :
        LET seg == segments[Origin(k)]
            out == clip_segments[k]
            d == end_time - start_time
        IN  /\ ("words" \in DOMAIN out) <=> ("words" \in DOMAIN seg)
            /\ "words" \in DOMAIN seg =>
                 LET P == {j \in 1..Len(seg.words) : WordPasses(Origin(k), j)}
                     From(m) == Len(out.words[m].word)
                 IN  /\ Len(out.words) = Cardinality(P)
                     /\ \A m \in 1..Len(out.words) : From(m) \in P
                     /\ \A m, n \in 1..Len(out.words) : m < n => From(m) < From(n)
                     /\ \A m \in 1..Len(out.words) :
                          LET w == seg.words[From(m)]
                              s == w.start - start_time
                              e == w.end - start_time
                          IN  /\ out.words[m].start = (IF s > 0 THEN s ELSE 0)
                              /\ out.words[m].end = (IF e < d THEN e ELSE d)
                              /\ out.words[m].word = w.word

\* C5 witness: a returned segment had two words, of which the one that
\* overlaps the window was kept and the other one dropped.
C5_Witness ==
    /\ pc = "extracted"
    /\ \E k \in 1..Len(clip_segments) :
         /\ "words" \in DOMAIN clip_segments[k]
         /\ Len(segments[Origin(k)].words) = 2
         /\ Len(clip_segments[k].words) = 1
         /\ WordPasses(Origin(k), Len(clip_segments[k].words[1].word))

\* the identities of all objects of the result so far
ResultObjects ==
    UNION {{clip_addrs[k].dict, clip_addrs[k].words}
           \cup {clip_addrs[k].word_dicts[j] :
                   j \in 1..Len(clip_addrs[k].word_dicts)} :
           k \in 1..Len(clip_addrs)} \ {0}

\* C14: no step of get_segments_for_timerange changes the segment list, a
\* segment, a word or the window it was given, and every segment dict, word
\* list and word dict of the result is an object of its own, none of them
\* one of the objects of the input.
C14_InputsUntouched ==
    [][/\ segments' = segments
       /\ start_time' = start_time
       /\ end_time' = end_time
       /\ Len(clip_addrs') = Len(clip_segments')
       /\ \A a \in ResultObjects' : a > InputObjects(segments)
       /\ Cardinality(ResultObjects') =
            InputObjects(clip_segments') - 1]_vars

\* C14 witness: the call has returned a segment with a word that needed no
\* adjustment, so that it equals its input segment value for value.
C14_Witness ==
    /\ pc = "extracted"
    /\ \E k \in 1..Len(clip_segments) :
         /\ clip_segments[k] = segments[Origin(k)]
         /\ "words" \in DOMAIN clip_segments[k]
         /\ Len(clip_segments[k].words) > 0

\* C15: however the extractions of several windows from one transcript are
\* interleaved, each call holds, after every step, exactly what a call on
\* its own holds at that point, and so returns the result it returns alone;
\* calls with the same window return identical results.
C15_NoHiddenState ==
    \A t \in DOMAIN tasks :
      /\ tasks[t].clip_segments =
           GetSegmentsForTimerange(SubSeq(segments, 1, tasks[t].seg_i - 1),
                                   tasks[t].start_time, tasks[t].end_time)
      /\ tasks[t].pc = "extracted" =>
           /\ tasks[t].seg_i = Len(segments) + 1
           /\ \A u \in DOMAIN tasks :
                (/\ tasks[u].pc = "extracted"
                 /\ tasks[u].start_time = tasks[t].start_time
                 /\ tasks[u].end_time = tasks[t].end_time)
                => tasks[u].clip_segments = tasks[t].clip_segments

\* C15 witness: a call has returned a non-empty result while a call for
\* another window, which has appended a different segment, is in its loop.
C15_Witness ==
    /\ Len(segments) = 2
    /\ \E t, u \in DOMAIN tasks :
         /\ tasks[t].pc = "extracted"
         /\ tasks[u].pc = "extract"
         /\ tasks[u].seg_i = 2
         /\ tasks[t].start_time # tasks[u].start_time
         /\ tasks[t].clip_segments # <<>>
         /\ tasks[u].clip_segments # <<>>
         /\ tasks[u].clip_segments[1] # tasks[t].clip_segments[1]

\* C17: a call of get_segments_for_timerange with end_time <= start_time
\* fails with a validation error before it looks at a segment: it never
\* gets into the loop and never returns a segment list.
C17_InvalidWindowRejected ==
    end_time <= start_time => (pc # "extracted" /\ seg_i = 1)

\* a rebased interval lies inside the rebased window [0, end_time - start_time]
InWindow(x) == 0 <= x.start /\ x.start <= x.end /\ x.end <= end_time - start_time

\* C24: for a window with end_time > start_time over segments and words
\* with start <= end, every segment returned so far and every word it
\* carries satisfies 0 <= start <= end <= end_time - start_time.
C24_RebasedIntervals ==
    (pc \in {"extract", "extracted"} /\ end_time > start_time) =>
      \A k \in 1..Len(clip_segments) :
        /\ InWindow(clip_segments[k])
        /\ "words" \in DOMAIN clip_segments[k] =>
             \A j \in 1..Len(clip_segments[k].words) :
               InWindow(clip_segments[k].words[j])

\* C24 witness: a segment that ends where the window starts was returned
\* with start = end = 0 together with a word that ends there too, next to a
\* segment that fills the window and was returned with 0 and the window
\* length.
C24_Witness ==
    /\ pc = "extracted"
    /\ end_time > start_time
    /\ \E k, l \in 1..Len(clip_segments) :
         /\ segments[Origin(k)].start < start_time
         /\ segments[Origin(k)].end = start_time
         /\ clip_segments[k].start = 0 /\ clip_segments[k].end = 0
         /\ "words" \in DOMAIN clip_segments[k]
         /\ \E j \in 1..Len(clip_segments[k].words) :
              /\ clip_segments[k].words[j].start = 0
              /\ clip_segments[k].words[j].end = 0
         /\ clip_segments[l].start = 0
         /\ clip_segments[l].end = end_time - start_time

----------------------------------------------------------------------------
(* Claims about the caption scheduler *)

\* the upper-case form of a text over the letters in use
Capitals(t) ==
    [k \in 1..Len(t) |->
       IF t[k] = "a" THEN "A" ELSE IF t[k] = "b" THEN "B"
       ELSE IF t[k] = "s" THEN "S" ELSE IF t[k] = "w" THEN "W" ELSE t[k]]

\* the instructions appended by the step at hand
Emitted == SubSeq(instructions', Len(instructions) + 1, Len(instructions'))

\* the duration left to [start, end] by a clip of length max_duration
ClipDur(x) == (IF x.end < max_duration THEN x.end ELSE max_duration) - x.start

\* C6: every instruction the scheduler emits, in word mode and in sentence
\* mode, has duration > 0, start >= 0 and start + duration <= clip duration.
C6_InstructionBounds ==
    \A k \in 1..Len(instructions) :
      /\ instructions[k].duration > 0
      /\ instructions[k].start >= 0
      /\ instructions[k].start + instructions[k].duration <= max_duration

\* C6 witness: a sentence that ends after the clip was scheduled up to the
\* end of the clip.
C6_Witness ==
    /\ pc = "scheduled"
    /\ ~word_by_word
    /\ \E k \in 1..Len(instructions) :
         instructions[k].start + instructions[k].duration = max_duration
    /\ \A i \in 1..Len(clip_segments) :
         clip_segments[i].start < max_duration /\ clip_segments[i].end > max_duration
    /\ Len(instructions) = 2

\* C7: in word mode the iteration for a segment appends, in word order,
\* one instruction for each word with start < clip duration and
\* min(end, clip duration) - start > 0, carrying the upper-case word, the
\* word's start and that duration; other words, and a segment without a
\* word list, append nothing, and the loop goes on to the next segment.
C7_WordSchedule ==
    [][(pc = "schedule" /\ word_by_word /\ seg_i <= Len(clip_segments)) =>
         /\ pc' = "schedule"
         /\ seg_i' = seg_i + 1
         /\ SubSeq(instructions', 1, Len(instructions)) = instructions
         /\ IF "words" \notin DOMAIN clip_segments[seg_i]
            THEN Emitted = <<>>
            ELSE LET ws == clip_segments[seg_i].words
                     P == {j \in 1..Len(ws) :
                             ws[j].start < max_duration /\ ClipDur(ws[j]) > 0}
                 IN  /\ Len(Emitted) = Cardinality(P)
                     /\ \E f \in [1..Len(Emitted) -> P] :
                          /\ \A k, l \in 1..Len(Emitted) : k < l => f[k] < f[l]
                          /\ \A k \in 1..Len(Emitted) :
                               /\ Emitted[k].text = Capitals(ws[f[k]].word)
                               /\ Emitted[k].start = ws[f[k]].start
                               /\ Emitted[k].duration = ClipDur(ws[f[k]])]_vars

\* C7 witness: of the two words of a segment the one that runs over the
\* clip end was scheduled up to the clip end and the one that starts at the
\* clip end was skipped; the other segment has no word list.
C7_Witness ==
    /\ pc = "scheduled"
    /\ word_by_word
    /\ Len(clip_segments) = 2
    /\ "words" \notin DOMAIN clip_segments[2]
    /\ "words" \in DOMAIN clip_segments[1]
    /\ Len(clip_segments[1].words) = 2
    /\ clip_segments[1].words[1].end > max_duration
    /\ clip_segments[1].words[2].start >= max_duration
    /\ Len(instructions) = 1
    /\ instructions[1].duration = max_duration - clip_segments[1].words[1].start

HasLineBreak(t) == \E k \in 1..Len(t) : t[k] = "\n"

\* C8: in sentence mode the iteration for a segment appends exactly one
\* instruction when start < clip duration and min(end, clip duration) -
\* start > 0, with the segment's start and that duration, and nothing
\* otherwise; the text is the upper-case text itself when it has at most 40
\* characters, and the same upper-case words, broken into lines, only when
\* it has more.
C8_SentenceSchedule ==
    [][(pc = "schedule" /\ ~word_by_word /\ seg_i <= Len(clip_segments)) =>
         LET segment == clip_segments[seg_i]
         IN  /\ pc' = "schedule"
             /\ seg_i' = seg_i + 1
             /\ SubSeq(instructions', 1, Len(instructions)) = instructions
             /\ IF segment.start < max_duration /\ ClipDur(segment) > 0
                THEN /\ Len(Emitted) = 1
                     /\ Emitted[1].start = segment.start
                     /\ Emitted[1].duration = ClipDur(segment)
                     /\ Len(segment.text) <= 40 =>
                          Emitted[1].text = Capitals(segment.text)
                     /\ HasLineBreak(Emitted[1].text) => Len(segment.text) > 40
                     /\ Split(Emitted[1].text) = Split(Capitals(segment.text))
                ELSE Emitted = <<>>]_vars

\* C8 witness: two sentences were scheduled, one of 40 characters on one
\* line and one of 41 characters on two lines.
C8_Witness ==
    /\ pc = "scheduled"
    /\ ~word_by_word
    /\ Len(instructions) = 2
    /\ Len(clip_segments[1].text) = 40
    /\ ~HasLineBreak(instructions[1].text)
    /\ Len(clip_segments[2].text) = 41
    /\ HasLineBreak(instructions[2].text)

\* words separated by single spaces, none longer than 35 characters
WrapPrecondition(t) ==
    /\ Len(t) > 40
    /\ t[1] # " " /\ t[Len(t)] # " "
    /\ \A i \in 1..(Len(t) - 1) : ~(t[i] = " " /\ t[i + 1] = " ")
    /\ \A i \in 1..(Len(t) - 35) : \E k \in i..(i + 35) : t[k] = " "

\* C9: a sentence of more than 40 characters, single spaces between its
\* words and no word longer than 35 characters is scheduled with a text of
\* at least two lines, none longer than 36 characters.
C9_WrapBound ==
    [][(/\ pc = "schedule" /\ ~word_by_word /\ seg_i <= Len(clip_segments)
        /\ WrapPrecondition(clip_segments[seg_i].text)
        /\ instructions' # instructions) =>
         LET t == instructions'[Len(instructions')].text
         IN  /\ HasLineBreak(t)
             /\ \A i \in 1..(Len(t) - 36) :
                  \E k \in i..(i + 36) : t[k] = "\n"]_vars

\* C9 witness: a sentence of 50 characters was scheduled on two lines.
C9_Witness ==
    /\ pc = "scheduled"
    /\ Len(clip_segments) = 1
    /\ Len(clip_segments[1].text) = 50
    /\ WrapPrecondition(clip_segments[1].text)
    /\ Len(instructions) = 1
    /\ Cardinality({k \in 1..Len(instructions[1].text) :
                      instructions[1].text[k] = "\n"}) = 1

\* no line of the text t is empty: t does not begin or end with a line
\* break and has no two line breaks in a row
NoEmptyLine(t) ==
    /\ t # <<>>
    /\ t[1] # "\n" /\ t[Len(t)] # "\n"
    /\ \A i \in 1..(Len(t) - 1) : ~(t[i] = "\n" /\ t[i + 1] = "\n")

\* C26: a sentence of more than 40 characters is scheduled with a text
\* whose words, line after line, are exactly the whitespace-separated words
\* of the upper-case sentence in their order, and none of whose lines is
\* empty, also when a word is longer than 35 characters.
C26_WrapLossless ==
    [][(/\ pc = "schedule" /\ ~word_by_word /\ seg_i <= Len(clip_segments)
        /\ Len(clip_segments[seg_i].text) > 40
        /\ instructions' # instructions) =>
         LET t == instructions'[Len(instructions')].text
         IN  /\ Split(t) = Split(Capitals(clip_segments[seg_i].text))
             /\ NoEmptyLine(t)]_vars

\* the arguments of the calls among cs that returned a clip, in call order
Returned(cs) ==
    LET r == SelectSeq(cs, LAMBDA c : c.text_clip)
    IN  [k \in 1..Len(r) |-> WithoutKeys(r[k], {"text_clip"})]

\* C28: an iteration of either scheduler loop calls _create_animated_text
\* for every schedulable word of the segment (for the segment itself in
\* sentence mode) whether or not earlier calls failed, goes on to the next
\* segment, and appends to clips exactly the calls that returned a clip,
\* in call order: a failed call adds nothing and stops nothing.
C28_FailedClipDropped ==
    [][(pc = "schedule" /\ seg_i <= Len(clip_segments)) =>
         LET segment == clip_segments[seg_i]
             Schedulable(x) == x.start < max_duration /\ ClipDur(x) > 0
         IN  /\ pc' = "schedule"
             /\ seg_i' = seg_i + 1
             /\ SubSeq(instructions', 1, Len(instructions)) = instructions
             /\ Len(Emitted) =
                  IF ~word_by_word
                  THEN IF Schedulable(segment) THEN 1 ELSE 0
                  ELSE IF "words" \notin DOMAIN segment THEN 0
                       ELSE Cardinality({j \in 1..Len(segment.words) :
                                           Schedulable(segment.words[j])})
             /\ clips' = clips \o Returned(Emitted)]_vars

\* C28 witness: of the two words of a segment the first failed to render
\* and the second did not; the second is the only clip.
C28_Witness ==
    /\ pc = "scheduled"
    /\ word_by_word
    /\ Len(clip_segments) = 1
    /\ Len(instructions) = 2
    /\ ~instructions[1].text_clip
    /\ instructions[2].text_clip
    /\ Len(clips) = 1
    /\ clips[1].start = instructions[2].start
    /\ clips[1].text = instructions[2].text
    /\ instructions[1].start < instructions[2].start

----------------------------------------------------------------------------
(* Claims about main *)

\* the calls of main made for a hook, in call order
HookCalls == SelectSeq(events, LAMBDA e : e.hook > 0)

\* the number of calls of op that main has made
Calls(op) == Cardinality({k \in 1..Len(events) : events[k].op = op})

\* analyze_hooks has returned a list to main
Analysed == \E k \in 1..Len(events) :
              events[k].op = "analyze_hooks" /\ (k < Len(events) \/ main_pc # "raised")

\* C16: once analyze_hooks has returned an empty list, main goes from the
\* test of the list to the exit with status 1 and nowhere else, and no clip
\* is cut, no window extracted and no caption video written at any time.
C16_NoHooksExit ==
    [][(Analysed' /\ found_hooks' = <<>>) =>
         /\ main_pc' \in {"check_hooks", "sys_exit_1"}
         /\ main_pc = "check_hooks" => main_pc' = "sys_exit_1"
         /\ HookCalls' = <<>>
         /\ generated_shorts' = <<>>
         /\ clip_segments' = <<>>]_vars

\* C16 witness: main has exited with status 1 on an empty hook list, having
\* transcribed a video with segments.
C16_Witness ==
    /\ main_pc = "sys_exit_1"
    /\ found_hooks = <<>>
    /\ segments # <<>>
    /\ Calls("analyze_hooks") = 1

\* C18: in a run of main analyze_hooks, and with it the refinement, is
\* called at most once and before any call made for a hook; the calls made
\* for hooks are, hook after hook in the order of the returned list,
\* clip_hook, get_segments_for_timerange on [start_time, end_time] of that
\* hook, add_animated_captions, none of them repeated; when main is done
\* all three were made for every hook, there are as many shorts as hooks,
\* and short i is made of the clip and the captions of hook i.
C18_PipelineOrder ==
    /\ Calls("analyze_hooks") <= 1
    /\ HookCalls # <<>> => Analysed
    /\ \A k \in 1..Len(events) :
         events[k].hook > 0 =>
           \E j \in 1..(k - 1) : events[j].op = "analyze_hooks"
    /\ Len(HookCalls) <= 3 * Len(found_hooks)
    /\ \A k \in 1..Len(HookCalls) :
         LET n == ((k - 1) \div 3) + 1
             c == HookCalls[k]
         IN  /\ c.hook = n
             /\ (k - 1) % 3 = 0 =>
                  /\ c.op = "clip_hook"
                  /\ c.window = <<found_hooks[n].start_time,
                                  found_hooks[n].end_time>>
             /\ (k - 1) % 3 = 1 =>
                  /\ c.op = "get_segments_for_timerange"
                  /\ c.window = <<found_hooks[n].start_time,
                                  found_hooks[n].end_time>>
             /\ (k - 1) % 3 = 2 => c.op = "add_animated_captions"
    /\ main_pc = "done" =>
         /\ Calls("analyze_hooks") = 1
         /\ Len(HookCalls) = 3 * Len(found_hooks)
         /\ Len(generated_shorts) = Len(found_hooks)
         /\ \A n \in 1..Len(found_hooks) :
              /\ generated_shorts[n].name = n
              /\ generated_shorts[n].clip.name = n
              /\ generated_shorts[n].clip.window =
                   <<found_hooks[n].start_time, found_hooks[n].end_time>>
              /\ generated_shorts[n].captions =
                   GetSegmentsForTimerange(segments, found_hooks[n].start_time,
                                           found_hooks[n].end_time)

\* C18 witness: main is done with two hooks of different windows whose
\* captions differ.
C18_Witness ==
    /\ main_pc = "done"
    /\ Len(found_hooks) = 2
    /\ found_hooks[1].start_time # found_hooks[2].start_time
    /\ Len(generated_shorts) = 2
    /\ generated_shorts[1].captions # generated_shorts[2].captions
    /\ generated_shorts[2].captions # <<>>

\* C19: with keep_temp false every run of main that has ended, be it with
\* shorts, with no hooks or with an error, has called cleanup_temp_files;
\* cleanup_temp_files is only called once the last hook is captioned; with
\* keep_temp true it is never called.
C19_CleanupUnlessKept ==
    /\ (~keep_temp /\ main_pc \in Terminal) => Calls("cleanup_temp_files") >= 1
    /\ Calls("cleanup_temp_files") >= 1 =>
         /\ Len(generated_shorts) = Len(found_hooks)
         /\ Calls("add_animated_captions") = Len(found_hooks)
    /\ keep_temp => Calls("cleanup_temp_files") = 0

\* C22: every call of clip that is writing uses the scratch file
\* temp_audio.m4a, the same for every hook, and writes to the output named
\* after its hook; when the calls follow one another as in the loop of
\* main, at most one call is writing, and so using the scratch file, at any
\* time.
C22_SharedScratchFile ==
    /\ \A n \in Writing :
         /\ clip_tasks[n].temp_audiofile = [stem |-> "temp_audio", number |-> 0]
         /\ clip_tasks[n].output = [stem |-> "hook", number |-> n]
    /\ ~parallel =>
         /\ Cardinality(Writing) <= 1
         /\ Cardinality({n \in DOMAIN clip_tasks :
                           clip_tasks[n].pc \notin {"waiting", "done"}}) <= 1

\* C22 witness: with the calls side by side, the calls of two hooks with
\* different windows are writing at once, both to the same scratch file.
C22_Witness ==
    /\ parallel
    /\ \E n, m \in Writing :
         /\ n # m
         /\ clip_tasks[n].start_time # clip_tasks[m].start_time
         /\ clip_tasks[n].temp_audiofile = clip_tasks[m].temp_audiofile
         /\ clip_tasks[n].output # clip_tasks[m].output

----------------------------------------------------------------------------
(* Claims about the animations *)

\* C20: the pop scale is 0.5 at t = 0, 1.2 at t = 0.15 and 1.0 from
\* t = 0.25 on; from frame to frame it rises by the same amount up to and
\* including the frame at 0.15, then falls by the same amount down to and
\* including the frame at 0.25 (so neither breakpoint is a jump), then
\* stays; it is never below 0.5 or above 1.2.
C20_PopCurve ==
    [][/\ frame_t = 0 => 10 * scale = 5 * ScaleUnit
       /\ frame_t' = 150 => 10 * scale' = 12 * ScaleUnit
       /\ frame_t' >= 250 => scale' = ScaleUnit
       /\ 10 * scale' >= 5 * ScaleUnit
       /\ 10 * scale' <= 12 * ScaleUnit
       /\ frame_t' <= 150 =>
            150 * 10 * (scale' - scale) = (12 - 5) * ScaleUnit
       /\ (frame_t' > 150 /\ frame_t' <= 250) =>
            100 * 10 * (scale - scale') = (12 - 10) * ScaleUnit
       /\ frame_t' > 250 => scale' = scale]_vars

\* C20 witness: the frame at t = 0.25 has been scaled, after the rise and
\* the fall.
C20_Witness ==
    /\ pc = "pop"
    /\ frame_t = 250
    /\ scale = ScaleUnit

\* the period 2*pi/6 of the claim, in ticks
GlowPeriod == Turn \div 6

\* C21: the glow opacity of every frame lies in [0.6, 1.0], touches both
\* ends, equals the opacity one period of 2*pi/6 earlier, and within the
\* last period still takes different values: the pulse repeats and never
\* settles, however long the overlay lasts; no shorter time is a period.
C21_GlowPulse ==
    /\ \A k \in 1..Len(opacities) :
         /\ 10 * opacities[k] >= 6 * OpacityUnit
         /\ opacities[k] <= OpacityUnit
         /\ k > GlowPeriod => opacities[k] = opacities[k - GlowPeriod]
    /\ Len(opacities) > GlowPeriod =>
         /\ \E k \in (Len(opacities) - GlowPeriod)..Len(opacities) :
              opacities[k] = OpacityUnit
         /\ \E k \in (Len(opacities) - GlowPeriod)..Len(opacities) :
              10 * opacities[k] = 6 * OpacityUnit
         /\ \A d \in 1..(GlowPeriod - 1) :
              \E k \in (d + 1)..Len(opacities) :
                opacities[k] # opacities[k - d]

\* C21 witness: more than ten periods of frames have their opacity, and the
\* latest frame differs from the one before it.
C21_Witness ==
    /\ pc = "glow"
    /\ Len(opacities) > 10 * GlowPeriod
    /\ opacities[Len(opacities)] # opacities[Len(opacities) - 1]

====
